---- MODULE Spec2Model ----
(***************************************************************************)
(* apogeetrak: ingestion of TLE records, the propagation adapter, the     *)
(* orbit path generator, the position interpolator over a cached path,     *)
(* the label pass (visibility, projection to the screen and the            *)
(* reconciliation of the labels) and the simulation clock.                 *)
(*                                                                         *)
(* The repository holds two generations of the ingestion code, and both    *)
(* are modelled:                                                           *)
(*   "legacy"   src/src/systems/tle.rs  (parse extracts the fixed columns, *)
(*              fetch reads the network, calculate returns an Option);      *)
(*   "current"  src/src/systems/satellites/tle.rs (parse hands the raw     *)
(*              lines to the propagation engine, fetch reads a local file, *)
(*              calculate substitutes a zero vector).                      *)
(* Text is modelled as UTF-8: a line is a sequence of bytes, str::len is   *)
(* the byte count and a slice index must be a character boundary.          *)
(* The external propagation engine (crate sgp4) is an oracle: what it      *)
(* answers for a record is part of the input.                              *)
(***************************************************************************)
EXTENDS Integers, Sequences, FiniteSets, TLC

VARIABLES
    \* ingestion (setup_satellites / load_satellites and the worker thread)
    gen,            \* which generation of the code runs: "legacy" or "current"
    source,         \* "ok" or "unreadable": whether the TLE source can be read
    batch,          \* the records of the source text, as catalogue numbers
    tail,           \* lines of the text after its last whole record (0..2)
    worker,         \* the worker thread: idle, reading, parsing, returned, panicked
    chunk,          \* the chunk of three lines the worker's loop is at
    satellites,     \* the worker's Vec<Satellite>
    outcomes,       \* history: what happened to each chunk
    result,         \* what fetch_satellites returned
    main,           \* the startup system: startup, joining, rendering, running
    spawned,        \* the Satellite entities spawned
    orbits,         \* the orbit meshes spawned: the points of each
    render_index,   \* render_orbits: the satellite its loop is at
    frames,         \* history: how many frames the Update schedule has run
    loaded,         \* history: the orbit meshes when startup ended
    \* path generation (Satellite::generate_orbit_path and Satellite::calculate)
    psat,           \* the satellite the path is generated for
    resolution,     \* the resolution asked for
    pstate,         \* idle, looping, done
    index,          \* the loop variable i
    period,         \* orbital_period
    path_points,    \* the Vec<Vec3> being built
    sample_times,   \* history: target_time of each turn of the loop
    lastQuery,      \* what the last call of calculate returned
    wall_clock,     \* Utc::now()
    runs,           \* history: how many generations have returned
    first_run,      \* history: the satellite and the path of the first of them
    \* one record through the column parser
    launch_yy, epoch_yy, parsed,
    \* one cached path and the position queries put to it
    interp,
    \* one satellite, the camera and the viewport of the label pass
    view,
    \* label reconciliation (labels.rs update), frame after frame
    sat_transforms, \* the Satellite entities that exist: entity -> translation
    labels,         \* the SatelliteLabel entities that exist
    commands,       \* the Commands queued by the pass, not yet applied
    next_entity,    \* the next Entity the world allocates
    window_open,    \* whether window_query.single() finds the window
    pass,           \* history: what the last pass met and did
    \* the simulation clock (time.rs, ui.rs), tick after tick
    time_state,     \* the TimeState resource
    tick            \* this tick: its inputs, the systems run and what they did

ingestVars == <<gen, source, batch, tail, worker, chunk, satellites, outcomes,
                result, main, spawned, orbits, render_index, frames, loaded>>
pathVars == <<psat, resolution, pstate, index, period, path_points, sample_times,
              lastQuery, wall_clock, runs, first_run>>
parseVars == <<launch_yy, epoch_yy, parsed>>
interpVars == <<interp>>
viewVars == <<view>>
labelVars == <<sat_transforms, labels, commands, next_entity, window_open, pass>>
clockVars == <<time_state, tick>>
vars == <<ingestVars, pathVars, parseVars, interpVars, viewVars, labelVars,
          clockVars>>

(***************************************************************************)
(* UTF-8 text                                                              *)
(***************************************************************************)

\* str::is_char_boundary(idx): idx is a 0-based byte offset
IsCharBoundary(s, idx) ==
    \/ idx = 0
    \/ idx = Len(s)
    \/ /\ idx > 0
       /\ idx < Len(s)
       /\ ~(s[idx + 1] \in 128..191)

\* number of characters of a UTF-8 string: the bytes that are not continuation bytes
CharCount(s) == Cardinality({k \in 1..Len(s) : ~(s[k] \in 128..191)})

\* &s[a..b] panics unless a <= b <= len and both are character boundaries
SlicePanics(s, a, b) ==
    \/ a > b
    \/ b > Len(s)
    \/ ~IsCharBoundary(s, a)
    \/ ~IsCharBoundary(s, b)

Slice(s, a, b) == SubSeq(s, a + 1, b)

\* ASCII white space as char::is_whitespace sees it: tab, LF, VT, FF, CR, space
IsSpace(c) == c \in {9, 10, 11, 12, 13, 32}

IsDigit(c) == c \in 48..57

RECURSIVE TrimStart(_)
TrimStart(s) ==
    IF s # <<>> /\ IsSpace(Head(s)) THEN TrimStart(Tail(s)) ELSE s

RECURSIVE TrimEnd(_)
TrimEnd(s) ==
    IF s # <<>> /\ IsSpace(s[Len(s)]) THEN TrimEnd(SubSeq(s, 1, Len(s) - 1)) ELSE s

\* str::trim
Trim(s) == TrimEnd(TrimStart(s))

AllDigits(s) == \A k \in 1..Len(s) : IsDigit(s[k])

RECURSIVE DigitsValue(_)
DigitsValue(s) ==
    IF s = <<>> THEN 0
    ELSE 10 * DigitsValue(SubSeq(s, 1, Len(s) - 1)) + (s[Len(s)] - 48)

U16Max == 65535

\* <u16 as FromStr>::from_str (bits = 16) and <u32 as FromStr>::from_str
\* (bits = 32) on a slice of at most five bytes: an optional '+', then at least
\* one digit and digits only; a value above the type's maximum is an error
\* (five digits always fit 32 bits).  -1 stands for Err.
ParseUnsigned(s, bits) ==
    LET body == IF s # <<>> /\ Head(s) = 43 THEN Tail(s) ELSE s
    IN  IF body = <<>> \/ ~AllDigits(body) THEN -1
        ELSE IF bits = 16 /\ DigitsValue(body) > U16Max THEN -1
        ELSE DigitsValue(body)

\* byte-wise ASCII lower case
Lower(s) == [k \in 1..Len(s) |-> IF s[k] \in 65..90 THEN s[k] + 32 ELSE s[k]]

\* position of the first byte of s that is in set cs, or 0
RECURSIVE FirstIn(_, _, _)
FirstIn(s, cs, k) ==
    IF k > Len(s) THEN 0
    ELSE IF s[k] \in cs THEN k
    ELSE FirstIn(s, cs, k + 1)

\* digits [ '.' digits ] with at least one digit
MantissaOk(m) ==
    LET dot == FirstIn(m, {46}, 1)
        ip  == IF dot = 0 THEN m ELSE SubSeq(m, 1, dot - 1)
        fp  == IF dot = 0 THEN <<>> ELSE SubSeq(m, dot + 1, Len(m))
    IN  /\ AllDigits(ip)
        /\ AllDigits(fp)
        /\ Len(ip) + Len(fp) > 0

ExponentOk(e) ==
    LET body == IF e # <<>> /\ Head(e) \in {43, 45} THEN Tail(e) ELSE e
    IN  body # <<>> /\ AllDigits(body)

\* <f64 as FromStr>::from_str accepts: [sign] (inf | infinity | nan), or
\* [sign] mantissa [ (e|E) [sign] digits ]
ParseFloatOk(s) ==
    LET body == IF s # <<>> /\ Head(s) \in {43, 45} THEN Tail(s) ELSE s
        e    == FirstIn(body, {69, 101}, 1)
    IN  \/ Lower(body) \in { <<105, 110, 102>>,
                             <<105, 110, 102, 105, 110, 105, 116, 121>>,
                             <<110, 97, 110>> }
        \/ /\ e = 0
           /\ MantissaOk(body)
        \/ /\ e > 0
           /\ MantissaOk(SubSeq(body, 1, e - 1))
           /\ ExponentOk(SubSeq(body, e + 1, Len(body)))

\* The whole days of an accepted f64 numeral written without exponent (the
\* only kind the catalogue below holds in a column that is kept): the value
\* truncated towards zero.
FloatWhole(s) ==
    LET neg  == s # <<>> /\ Head(s) = 45
        body == IF s # <<>> /\ Head(s) \in {43, 45} THEN Tail(s) ELSE s
        dot  == FirstIn(body, {46}, 1)
        ip   == IF dot = 0 THEN body ELSE SubSeq(body, 1, dot - 1)
    IN  IF neg THEN 0 - DigitsValue(ip) ELSE DigitsValue(ip)

(***************************************************************************)
(* Input records                                                           *)
(***************************************************************************)

Put(line, off, bytes) ==
    [k \in 1..Len(line) |->
        IF k - 1 >= off /\ k - 1 < off + Len(bytes) THEN bytes[k - off] ELSE line[k]]

\* "ISS (ZARYA)  "
NameIss == <<73,83,83,32,40,90,65,82,89,65,41,32,32>>
\* "GPS BIIR-2"
NameGps == <<71,80,83,32,66,73,73,82,45,50>>

\* 1 25544U 98067A   08264.51782528 -.00002182  00000-0 -11606-4 0  2927
Iss1 == <<49,32,50,53,53,52,52,85,32,57,56,48,54,55,65,32,32,32,48,56,50,54,52,46,53,49,55,56,50,53,50,56,32,45,46,48,48,48,48,50,49,56,50,32,32,48,48,48,48,48,45,48,32,45,49,49,54,48,54,45,52,32,48,32,32,50,57,50,55>>
\* 2 25544  51.6416 247.4627 0006703 130.5360 325.0288 15.72125391563537
Iss2 == <<50,32,50,53,53,52,52,32,32,53,49,46,54,52,49,54,32,50,52,55,46,52,54,50,55,32,48,48,48,54,55,48,51,32,49,51,48,46,53,51,54,48,32,51,50,53,46,48,50,56,56,32,49,53,46,55,50,49,50,53,51,57,49,53,54,51,53,51,55>>
\* 1 24876U 97035A   24123.45678901  .00000012  00000-0  00000-0 0  9991
Gps1 == <<49,32,50,52,56,55,54,85,32,57,55,48,51,53,65,32,32,32,50,52,49,50,51,46,52,53,54,55,56,57,48,49,32,32,46,48,48,48,48,48,48,49,50,32,32,48,48,48,48,48,45,48,32,32,48,48,48,48,48,45,48,32,48,32,32,57,57,57,49>>
\* 2 24876  55.5432 150.1234 0081234  52.1234 308.5432  2.00563112196543
Gps2 == <<50,32,50,52,56,55,54,32,32,53,53,46,53,52,51,50,32,49,53,48,46,49,50,51,52,32,48,48,56,49,50,51,52,32,32,53,50,46,49,50,51,52,32,51,48,56,46,53,52,51,50,32,32,50,46,48,48,53,54,51,49,49,50,49,57,54,53,52,51>>

\* U+00E9 in UTF-8: two bytes
EAcute == <<195, 169>>

\* Times are whole seconds on one axis.  mean_motion is in hundredths of a
\* revolution per day (MeanMotionScale), so 1572 stands for 15.72 rev/day.
MeanMotionScale == 100

\* What the engine keeps of a record it accepted (sgp4::Elements and
\* sgp4::Constants): the mean motion, the epoch, and the engine's own
\* behaviour on the record: epochOk is whether datetime_to_minutes_since_epoch
\* succeeds; fails is when propagate returns an error: "never", "from" (from
\* failFrom seconds after the epoch on: a decayed orbit) or "window" (from
\* failFrom up to, not including, failTo).
ElementsIss == [mean_motion |-> 1572, datetime |-> 0, epochOk |-> TRUE,
                fails |-> "never", failFrom |-> 0, failTo |-> 0]
ElementsGps == [mean_motion |-> 201, datetime |-> -86400, epochOk |-> TRUE,
                fails |-> "from", failFrom |-> 3600, failTo |-> 0]

\* The records a batch is made of.  engine is what the propagation engine
\* answers when asked to build a handle from the two data lines ("ok",
\* "bad_tle" from Elements::from_tle, "bad_geometry" from
\* Constants::from_elements); wellFormed is the ground truth about the
\* record: 69 columns in both data lines, numbers in the numeric columns, a
\* valid orbit.
Catalogue ==
    << \* 1: a well-formed record
       [name |-> NameIss, line1 |-> Iss1, line2 |-> Iss2,
        engine |-> "ok", elements |-> ElementsIss, wellFormed |-> TRUE],
       \* 2: a well-formed record whose orbit decays an hour after its epoch
       [name |-> NameGps, line1 |-> Gps1, line2 |-> Gps2,
        engine |-> "ok", elements |-> ElementsGps, wellFormed |-> TRUE],
       \* 3: data line 1 has 68 columns
       [name |-> NameIss, line1 |-> SubSeq(Iss1, 1, 68), line2 |-> Iss2,
        engine |-> "bad_tle", elements |-> ElementsIss, wellFormed |-> FALSE],
       \* 4: data line 2 has 60 columns
       [name |-> NameIss, line1 |-> Iss1, line2 |-> SubSeq(Iss2, 1, 60),
        engine |-> "bad_tle", elements |-> ElementsIss, wellFormed |-> FALSE],
       \* 5: catalog number "2554X"
       [name |-> NameIss, line1 |-> Put(Iss1, 6, <<88>>), line2 |-> Iss2,
        engine |-> "bad_tle", elements |-> ElementsIss, wellFormed |-> FALSE],
       \* 6: mean motion "15.72X25391"
       [name |-> NameIss, line1 |-> Iss1, line2 |-> Put(Iss2, 57, <<88>>),
        engine |-> "bad_tle", elements |-> ElementsIss, wellFormed |-> FALSE],
       \* 7: numeric columns fine, orbital geometry invalid (eccentricity column)
       [name |-> NameGps, line1 |-> Gps1, line2 |-> Put(Gps2, 26, <<57,57,57,57,57,57,57>>),
        engine |-> "bad_geometry", elements |-> ElementsGps, wellFormed |-> FALSE],
       \* 8: a two-byte character over bytes 6 and 7 of data line 1: 68
       \*    characters in 69 bytes, and byte offset 7 is no character boundary
       [name |-> NameIss, line1 |-> Put(Iss1, 6, EAcute), line2 |-> Iss2,
        engine |-> "bad_tle", elements |-> ElementsIss, wellFormed |-> FALSE],
       \* 9: a two-byte character inside the catalog number column (bytes 3, 4)
       [name |-> NameIss, line1 |-> Put(Iss1, 3, EAcute), line2 |-> Iss2,
        engine |-> "bad_tle", elements |-> ElementsIss, wellFormed |-> FALSE] >>

KindIds == 1..Len(Catalogue)

\* the external engine's answer for a raw record: a table over the catalogue
EngineKind(line1, line2) ==
    CHOOSE k \in KindIds : Catalogue[k].line1 = line1 /\ Catalogue[k].line2 = line2

\* sgp4::Elements::from_tle(name, line1, line2)
EngineFromTle(line1, line2) ==
    IF Catalogue[EngineKind(line1, line2)].engine = "bad_tle" THEN "Err" ELSE "Ok"

\* the Elements that from_tle returns for an accepted record
EngineElements(line1, line2) == Catalogue[EngineKind(line1, line2)].elements

\* sgp4::Constants::from_elements(&elements)
EngineFromElements(line1, line2) ==
    IF Catalogue[EngineKind(line1, line2)].engine = "ok" THEN "Ok" ELSE "Err"

(***************************************************************************)
(* Satellite::parse                                                        *)
(***************************************************************************)

LineMin == 69

None == [tag |-> "None"]
Panic == [tag |-> "Panic"]
Some(v) == [tag |-> "Some", val |-> v]

\* the length guard both generations start with: str::len counts bytes
TooShort(line1, line2) == Len(line1) < LineMin \/ Len(line2) < LineMin

\* the columns Satellite::parse (legacy) extracts, in the order it reads them
Line1Fields ==
    << [a |-> 2,  b |-> 7,  trim |-> TRUE,  ty |-> "u32"],   \* norad_id
       [a |-> 9,  b |-> 17, trim |-> TRUE,  ty |-> "str"],   \* intl_id
       [a |-> 9,  b |-> 11, trim |-> FALSE, ty |-> "u16"],   \* launch_year
       [a |-> 11, b |-> 14, trim |-> TRUE,  ty |-> "u16"],   \* launch_number
       [a |-> 18, b |-> 20, trim |-> FALSE, ty |-> "u16"],   \* epoch_year
       [a |-> 20, b |-> 32, trim |-> TRUE,  ty |-> "f64"] >> \* epoch_day

Line2Fields ==
    << [a |-> 8,  b |-> 16, trim |-> TRUE, ty |-> "f64"],    \* inclination
       [a |-> 52, b |-> 63, trim |-> TRUE, ty |-> "f64"] >>  \* mean_motion

FieldBits(f) == IF f.ty = "u32" THEN 32 ELSE 16

FieldText(line, f) ==
    IF f.trim THEN Trim(Slice(line, f.a, f.b)) ELSE Slice(line, f.a, f.b)

\* what reading one column does: "panic" (slice off a character boundary),
\* "err" (.parse().ok()? returns None) or "ok"
FieldStatus(line, f) ==
    IF SlicePanics(line, f.a, f.b) THEN "panic"
    ELSE IF f.ty = "str" THEN "ok"
    ELSE IF f.ty = "f64" THEN (IF ParseFloatOk(FieldText(line, f)) THEN "ok" ELSE "err")
    ELSE IF ParseUnsigned(FieldText(line, f), FieldBits(f)) = -1 THEN "err"
    ELSE "ok"

\* the first column, in reading order, that does not read "ok"
RECURSIVE FirstFailure(_, _, _)
FirstFailure(line, fields, k) ==
    IF k > Len(fields) THEN "ok"
    ELSE IF FieldStatus(line, fields[k]) # "ok" THEN FieldStatus(line, fields[k])
    ELSE FirstFailure(line, fields, k + 1)

PivotLimit == 57

\* A faulty pivot: the boundary year 57 falls on the 2000 side.
PivotYearInclusive(yy) == IF yy <= PivotLimit THEN 2000 + yy ELSE 1900 + yy

\* if yy < 57 { 2000 + yy } else { 1900 + yy }
PivotYear(yy) == IF yy < PivotLimit THEN 2000 + yy ELSE 1900 + yy

FieldValue(line, f) == ParseUnsigned(FieldText(line, f), FieldBits(f))

\* Satellite::parse of src/src/bin/api_test.rs, which is also the column
\* extraction that Satellite::parse of src/src/systems/tle.rs starts with
ParseColumns(name, line1, line2) ==
    IF TooShort(line1, line2) THEN None
    ELSE LET s1 == FirstFailure(line1, Line1Fields, 1)
             s2 == FirstFailure(line2, Line2Fields, 1)
         IN  IF s1 = "panic" THEN Panic
             ELSE IF s1 = "err" THEN None
             ELSE IF s2 = "panic" THEN Panic
             ELSE IF s2 = "err" THEN None
             ELSE Some([name          |-> Trim(name),
                        norad_id      |-> FieldValue(line1, Line1Fields[1]),
                        intl_id       |-> FieldText(line1, Line1Fields[2]),
                        launch_year   |-> PivotYear(FieldValue(line1, Line1Fields[3])),
                        launch_number |-> FieldValue(line1, Line1Fields[4]),
                        epoch_year    |-> PivotYear(FieldValue(line1, Line1Fields[5])),
                        epoch_day     |-> FloatWhole(FieldText(line1, Line1Fields[6]))])

\* Satellite::parse of src/src/systems/tle.rs: the columns, then the engine's
\* handle (from_tle and from_elements, each .ok()?)
ParseLegacy(name, line1, line2) ==
    LET cols == ParseColumns(name, line1, line2)
    IN  IF cols.tag # "Some" THEN cols
        ELSE IF EngineFromTle(line1, line2) = "Err" THEN None
        ELSE IF EngineFromElements(line1, line2) = "Err" THEN None
        ELSE Some([name          |-> cols.val.name,
                   norad_id      |-> cols.val.norad_id,
                   intl_id       |-> cols.val.intl_id,
                   launch_year   |-> cols.val.launch_year,
                   launch_number |-> cols.val.launch_number,
                   epoch_year    |-> cols.val.epoch_year,
                   epoch_day     |-> cols.val.epoch_day,
                   elements      |-> EngineElements(line1, line2)])

\* Satellite::parse of src/src/systems/satellites/tle.rs
ParseCurrent(name, line1, line2) ==
    IF TooShort(line1, line2) THEN None
    ELSE IF EngineFromTle(line1, line2) = "Err" THEN None
    ELSE IF EngineFromElements(line1, line2) = "Err" THEN None
    ELSE Some([name     |-> Trim(name),
               elements |-> EngineElements(line1, line2)])

(***************************************************************************)
(* Propagation adapter                                                     *)
(***************************************************************************)

ZeroPrediction == [position |-> <<0, 0, 0>>, velocity |-> <<0, 0, 0>>]

\* What the engine computes for a handle at tsince seconds from its epoch, when
\* it computes anything: some non-zero state vector that depends on the time.
EnginePrediction(el, tsince) ==
    [position |-> <<7000 + (tsince % 89), 1 + (el.mean_motion % 13), 0 - (1 + (tsince % 31))>>,
     velocity |-> <<1 + (tsince % 7), 2, 3>>]

\* whether the engine fails to propagate the handle to tsince
EngineFails(el, tsince) ==
    \/ el.fails = "from" /\ tsince >= el.failFrom
    \/ el.fails = "window" /\ tsince >= el.failFrom /\ tsince < el.failTo

\* self.constants.propagate(MinutesSinceEpoch(tsince))
EnginePropagate(el, tsince) ==
    IF EngineFails(el, tsince) THEN [tag |-> "Err"]
    ELSE [tag |-> "Ok", val |-> EnginePrediction(el, tsince)]

\* Satellite::minutes_since_epoch (current): the engine's conversion, Err -> None.
\* The value is kept in seconds.
minutes_since_epoch(sat, target_time) ==
    IF sat.elements.epochOk THEN Some(target_time - sat.elements.datetime) ELSE None

\* A faulty calculate: a propagation error is answered with the state at the
\* epoch instead of the zero vectors.
calculateStale(sat, propagation_time) ==
    LET tsince == minutes_since_epoch(sat, propagation_time)
    IN  IF tsince.tag = "None" THEN ZeroPrediction
        ELSE LET r == EnginePropagate(sat.elements, tsince.val)
             IN  IF r.tag = "Err" THEN EnginePrediction(sat.elements, 0) ELSE r.val

\* Satellite::calculate (current)
calculate(sat, propagation_time) ==
    LET tsince == minutes_since_epoch(sat, propagation_time)
    IN  IF tsince.tag = "None" THEN ZeroPrediction
        ELSE LET r == EnginePropagate(sat.elements, tsince.val)
             IN  IF r.tag = "Err" THEN ZeroPrediction ELSE r.val

\* sgp4_to_cartesian / sgp4_to_bevy_pos: the engine's Y and Z change places
sgp4_to_cartesian(prediction) ==
    <<prediction.position[1], prediction.position[3], prediction.position[2]>>

\* Satellite::current_position (current), now being Utc::now()
current_position(sat, now) == sgp4_to_cartesian(calculate(sat, now))

\* integer division that truncates towards zero, as Rust's does
TruncDiv(a, b) == IF a >= 0 THEN a \div b ELSE 0 - ((0 - a) \div b)

\* chrono's NaiveDate spans about 262,000 years either side of year 0
ChronoMaxDays == 95000000

\* Satellite::calculate_minutes_since_epoch (legacy): the epoch is rebuilt from
\* epoch_year and epoch_day; from_ymd_opt(year, 1, 1) accepts every u16 year,
\* checked_add_signed fails when the day count leaves chrono's range, and the
\* seconds of the day, below 86400, are always accepted.  The difference to now
\* is cut to whole minutes (num_minutes); it is kept in seconds.
LegacyMinutesSinceEpoch(sat, now) ==
    LET days == sat.epoch_day - 1
    IN  IF sat.epoch_year * 366 + days > ChronoMaxDays
           \/ sat.epoch_year * 366 + days < 0 - ChronoMaxDays
        THEN None
        ELSE Some(TruncDiv(now - sat.elements.datetime, 60) * 60)

\* Satellite::calculate (legacy): Option<Prediction>
LegacyCalculate(sat, now) ==
    LET m == LegacyMinutesSinceEpoch(sat, now)
    IN  IF m.tag = "None" THEN None
        ELSE LET r == EnginePropagate(sat.elements, m.val)
             IN  IF r.tag = "Err" THEN None ELSE Some(r.val)

(***************************************************************************)
(* Orbit path generation                                                   *)
(***************************************************************************)

MinutesPerDay == 1440
FallbackPeriod == 90

\* A faulty period: 1440 multiplied by the mean motion instead of divided.
orbital_period_product(sat) ==
    IF sat.elements.mean_motion > 0
    THEN [num |-> MinutesPerDay * sat.elements.mean_motion, den |-> MeanMotionScale]
    ELSE [num |-> FallbackPeriod, den |-> 1]

\* let orbital_period = if mean_motion > 0.0 { 1440.0 / mean_motion } else { 90.0 }
\* in minutes, as the exact fraction num / den
orbital_period(sat) ==
    IF sat.elements.mean_motion > 0
    THEN [num |-> MinutesPerDay * MeanMotionScale, den |-> sat.elements.mean_motion]
    ELSE [num |-> FallbackPeriod, den |-> 1]

\* ((i as f64 / resolution as f64) * orbital_period * 60.0) as i64: whole
\* seconds, the fraction cut off
OffsetSeconds(p, res, i) ==
    (i * p.num * 60) \div (res * p.den)

\* A faulty start: the path is anchored at the wall clock, not at the epoch.
start_time_now(sat) == wall_clock

\* let start_time = self.elements.datetime.and_utc()
start_time(sat) == sat.elements.datetime

\* one turn of the loop of generate_orbit_path, p being orbital_period: the
\* time it samples and the point it pushes
OrbitSample(sat, p, res, i) ==
    LET target_time == start_time(sat) + OffsetSeconds(p, res, i)
    IN  [time  |-> target_time,
         point |-> sgp4_to_cartesian(calculate(sat, target_time))]

\* A faulty generate_orbit_path: a sample the engine fails on is left out.
generate_orbit_path_skipping(sat, res) ==
    SelectSeq([k \in 1..res |-> OrbitSample(sat, orbital_period(sat), res, k - 1).point],
              LAMBDA pt : pt # <<0, 0, 0>>)

\* Satellite::generate_orbit_path
generate_orbit_path(sat, res) ==
    [k \in 1..res |-> OrbitSample(sat, orbital_period(sat), res, k - 1).point]

(***************************************************************************)
(* Ingestion: the startup system and its worker thread                     *)
(***************************************************************************)

MaxRecords == 3

\* how many frames a run is followed for
MaxFrames == 2
ChunkSize == 3
OrbitResolution == 128

\* the wall-clock times (Utc::now) a run may start at
WallClock == {-86000, 0}

\* the lines left over after the last whole record
TailLines == <<NameIss, Iss1>>

\* response.lines().collect(): the text, line by line
Lines(b, t) ==
    [j \in 1..(ChunkSize * Len(b) + t) |->
        LET r == ((j - 1) \div ChunkSize) + 1
            c == (j - 1) % ChunkSize
        IN  IF r > Len(b) THEN TailLines[j - ChunkSize * Len(b)]
            ELSE IF c = 0 THEN Catalogue[b[r]].name
            ELSE IF c = 1 THEN Catalogue[b[r]].line1
            ELSE Catalogue[b[r]].line2]

\* lines.chunks(3): the number of chunks and the c-th chunk
NumChunks(lines) == (Len(lines) + ChunkSize - 1) \div ChunkSize

Chunk(lines, c) ==
    SubSeq(lines, ChunkSize * (c - 1) + 1,
           IF ChunkSize * c < Len(lines) THEN ChunkSize * c ELSE Len(lines))

\* let load_from_file = true
LoadFromFile == TRUE

Ok(v) == [tag |-> "Ok", val |-> v]
Err == [tag |-> "Err"]
Pending == [tag |-> "Pending"]

\* a value that has been computed
Done(v) == [tag |-> "Done", val |-> v]

\* The head of fetch_satellites, up to the text: Text when the source was
\* read, or else what the function returns at once.  Legacy reads the network
\* (send().await?.text().await?); current reads the file when load_from_file
\* and returns Ok(vec![]) when that fails, and reads the network otherwise.
FetchRead(g, src) ==
    IF src = "ok" THEN [tag |-> "Text"]
    ELSE IF g = "current" /\ LoadFromFile THEN Ok(<<>>)
    ELSE Err

\* Satellite::parse of the generation that runs
Parse(g, name, line1, line2) ==
    IF g = "legacy" THEN ParseLegacy(name, line1, line2)
    ELSE ParseCurrent(name, line1, line2)

\* if chunk.len() == 3
ChunkIsRecord(c) == Len(c) = ChunkSize

\* A faulty tail of fetch_satellites: an empty list is reported as an error.
FetchReturnNonEmpty(sats) == IF sats = <<>> THEN Err ELSE Ok(sats)

\* the tail of fetch_satellites: Ok(satellites)
FetchReturn(sats) == Ok(sats)

\* the satellites load_satellites (legacy) spawns: those calculate() gives a
\* position for
LegacySpawn(sats, now) ==
    SelectSeq(sats, LAMBDA s : LegacyCalculate(s, now).tag = "Some")

\* the satellites setup_satellites (current) spawns: every one
CurrentSpawn(sats) == sats

\* render_orbits, one turn of its loop: a mesh of the satellite's path is
\* spawned unless the path is empty
RenderOrbit(meshes, sat) ==
    LET orbit_points == generate_orbit_path(sat, OrbitResolution)
    IN  IF orbit_points # <<>> THEN Append(meshes, orbit_points) ELSE meshes

\* A faulty schedule: the Update systems run as soon as the worker is spawned.
UpdateRunsEarly(m) == m # "startup"

\* The Startup schedule is run to its end before the first Update: a frame's
\* systems run only once the startup system has returned.
UpdateRuns(m) == m = "running"

\* What the per-frame systems (update_positions, update_satellite_positions)
\* do to the orbit meshes: nothing, they write Transform only.
UpdateOrbits(meshes, sats) == meshes

Batches == UNION {[1..n -> KindIds] : n \in 0..MaxRecords}

pathIdle ==
    /\ psat = [name |-> NameIss, elements |-> ElementsIss]
    /\ resolution = 0
    /\ pstate = "off"
    /\ index = 0
    /\ period = [num |-> 0, den |-> 1]
    /\ path_points = <<>>
    /\ sample_times = <<>>
    /\ lastQuery = Pending
    /\ wall_clock = 0
    /\ runs = 0
    /\ first_run = Pending

parseIdle ==
    /\ launch_yy = 0
    /\ epoch_yy = 0
    /\ parsed = Pending

interpIdle == interp = Pending

viewIdle == view = Pending

\* no label pass and no clock
frameIdle ==
    /\ sat_transforms = <<>>
    /\ labels = {}
    /\ commands = Pending
    /\ next_entity = 0
    /\ window_open = FALSE
    /\ pass = Pending
    /\ time_state = Pending
    /\ tick = Pending

ingestIdle ==
    /\ gen = "current"
    /\ source = "ok"
    /\ batch = <<>>
    /\ tail = 0
    /\ worker = "off"
    /\ chunk = 1
    /\ satellites = <<>>
    /\ outcomes = <<>>
    /\ result = Pending
    /\ main = "off"
    /\ spawned = <<>>
    /\ orbits = <<>>
    /\ render_index = 1
    /\ frames = 0
    /\ loaded = Pending

Init ==
    /\ gen \in {"legacy", "current"}
    /\ source \in {"ok", "unreadable"}
    /\ batch \in Batches
    /\ tail \in 0..(ChunkSize - 1)
    /\ source = "unreadable" => (batch = <<>> /\ tail = 0)
    /\ worker = "idle"
    /\ chunk = 1
    /\ satellites = <<>>
    /\ outcomes = <<>>
    /\ result = Pending
    /\ main = "startup"
    /\ spawned = <<>>
    /\ orbits = <<>>
    /\ render_index = 1
    /\ frames = 0
    /\ loaded = Pending
    /\ pathIdle
    /\ parseIdle
    /\ interpIdle
    /\ viewIdle
    /\ frameIdle

\* std::thread::spawn(|| ... fetch_satellites().await)
SpawnWorker ==
    /\ main = "startup"
    /\ main' = "joining"
    /\ worker' = "reading"
    /\ UNCHANGED <<gen, source, batch, tail, chunk, satellites, outcomes, result,
                   spawned, orbits, render_index, frames, loaded>>
    /\ UNCHANGED <<pathVars, parseVars, interpVars, viewVars, labelVars, clockVars>>

\* fetch_satellites: reading the source
WorkerRead ==
    /\ worker = "reading"
    /\ IF FetchRead(gen, source).tag = "Text"
       THEN /\ worker' = "parsing"
            /\ result' = result
       ELSE /\ worker' = "returned"
            /\ result' = FetchRead(gen, source)
    /\ UNCHANGED <<gen, source, batch, tail, chunk, satellites, outcomes, main,
                   spawned, orbits, render_index, frames, loaded>>
    /\ UNCHANGED <<pathVars, parseVars, interpVars, viewVars, labelVars, clockVars>>

\* fetch_satellites: one turn of  for chunk in lines.chunks(3)
WorkerParseChunk ==
    /\ worker = "parsing"
    /\ chunk <= NumChunks(Lines(batch, tail))
    /\ LET c == Chunk(Lines(batch, tail), chunk)
           r == IF ChunkIsRecord(c) THEN Parse(gen, c[1], c[2], c[3])
                ELSE [tag |-> "Skipped"]
       IN  /\ outcomes' = Append(outcomes, r.tag)
           /\ satellites' = IF r.tag = "Some" THEN Append(satellites, r.val)
                            ELSE satellites
           /\ worker' = IF r.tag = "Panic" THEN "panicked" ELSE "parsing"
    /\ chunk' = chunk + 1
    /\ UNCHANGED <<gen, source, batch, tail, result, main, spawned, orbits,
                   render_index, frames, loaded>>
    /\ UNCHANGED <<pathVars, parseVars, interpVars, viewVars, labelVars, clockVars>>

\* fetch_satellites: Ok(satellites)
WorkerReturn ==
    /\ worker = "parsing"
    /\ chunk > NumChunks(Lines(batch, tail))
    /\ result' = FetchReturn(satellites)
    /\ worker' = "returned"
    /\ UNCHANGED <<gen, source, batch, tail, chunk, satellites, outcomes, main,
                   spawned, orbits, render_index, frames, loaded>>
    /\ UNCHANGED <<pathVars, parseVars, interpVars, viewVars, labelVars, clockVars>>

\* A faulty hand-off: task.join().unwrap(), the worker's panic is passed on.
join_unwrap(wk, res) ==
    IF wk = "panicked" THEN "abort"
    ELSE IF res.tag = "Ok" THEN "spawn" ELSE "log"

\* match task.join(): the arm taken.  Ok(Ok(satellites)) is the worker's
\* return of Ok; Ok(Err(e)) and Err(_) (the worker panicked) call error!
join_match(wk, res) ==
    IF wk = "returned" /\ res.tag = "Ok" THEN "spawn" ELSE "log"

\* match task.join(): Ok(Ok(satellites)) spawns the satellites and, in the
\* current generation, goes on to render_orbits; Ok(Err(e)) and Err(_) log and
\* the startup system returns
Join ==
    /\ main = "joining"
    /\ worker \in {"returned", "panicked"}
    /\ IF join_match(worker, result) = "spawn"
       THEN IF gen = "legacy"
            THEN /\ \E now \in WallClock : spawned' = LegacySpawn(result.val, now)
                 /\ main' = "running"
                 /\ loaded' = orbits
            ELSE /\ spawned' = CurrentSpawn(result.val)
                 /\ main' = "rendering"
                 /\ loaded' = loaded
       ELSE /\ spawned' = spawned
            /\ main' = IF join_match(worker, result) = "log" THEN "running"
                       ELSE "aborted"
            /\ loaded' = orbits
    /\ render_index' = 1
    /\ UNCHANGED <<gen, source, batch, tail, worker, chunk, satellites, outcomes,
                   result, orbits, frames>>
    /\ UNCHANGED <<pathVars, parseVars, interpVars, viewVars, labelVars, clockVars>>

\* render_orbits: one turn of  for satellite in satellites
RenderNext ==
    /\ main = "rendering"
    /\ render_index <= Len(result.val)
    /\ orbits' = RenderOrbit(orbits, result.val[render_index])
    /\ render_index' = render_index + 1
    /\ UNCHANGED <<gen, source, batch, tail, worker, chunk, satellites, outcomes,
                   result, main, spawned, frames, loaded>>
    /\ UNCHANGED <<pathVars, parseVars, interpVars, viewVars, labelVars, clockVars>>

\* render_orbits returns, and with it the startup system
RenderReturn ==
    /\ main = "rendering"
    /\ render_index > Len(result.val)
    /\ main' = "running"
    /\ loaded' = orbits
    /\ UNCHANGED <<gen, source, batch, tail, worker, chunk, satellites, outcomes,
                   result, spawned, orbits, render_index, frames>>
    /\ UNCHANGED <<pathVars, parseVars, interpVars, viewVars, labelVars, clockVars>>

\* one frame: the systems of the Update schedule run
Frame ==
    /\ UpdateRuns(main)
    /\ frames < MaxFrames
    /\ frames' = frames + 1
    /\ orbits' = UpdateOrbits(orbits, spawned)
    /\ UNCHANGED <<gen, source, batch, tail, worker, chunk, satellites, outcomes,
                   result, main, spawned, render_index, loaded>>
    /\ UNCHANGED <<pathVars, parseVars, interpVars, viewVars, labelVars, clockVars>>

Next ==
    \/ SpawnWorker
    \/ WorkerRead
    \/ WorkerParseChunk
    \/ WorkerReturn
    \/ Join
    \/ RenderNext
    \/ RenderReturn
    \/ Frame

Spec == Init /\ [][Next]_vars

(***************************************************************************)
(* Path generation and position queries for one satellite                  *)
(***************************************************************************)

MaxResolution == 4

\* how many times a path is generated for the satellite
MaxRuns == 2

\* mean motions, in hundredths of a revolution per day
MeanMotions == {-100, 0, 1, 201, 1572, 1600}

\* the epochs (elements.datetime) and the times a position is asked for
Epochs == {0, 500}
QueryTimes == {-60, 0, 45, 3000}

\* when the engine fails: never, from the epoch on, between 1000 s and 2000 s
\* after the epoch
Failures == {[fails |-> "never", failFrom |-> 0, failTo |-> 0],
             [fails |-> "from", failFrom |-> 0, failTo |-> 0],
             [fails |-> "window", failFrom |-> 1000, failTo |-> 2000]}

InitPath ==
    /\ \E mm \in MeanMotions, e \in Epochs, ok \in BOOLEAN, f \in Failures :
          psat = [name |-> NameIss,
                  elements |-> [mean_motion |-> mm, datetime |-> e, epochOk |-> ok,
                                fails |-> f.fails, failFrom |-> f.failFrom,
                                failTo |-> f.failTo]]
    /\ resolution \in 0..MaxResolution
    /\ pstate = "idle"
    /\ index = 0
    /\ period = [num |-> 0, den |-> 1]
    /\ path_points = <<>>
    /\ sample_times = <<>>
    /\ lastQuery = Pending
    /\ wall_clock \in WallClock
    /\ runs = 0
    /\ first_run = Pending
    /\ ingestIdle
    /\ parseIdle
    /\ interpIdle
    /\ viewIdle
    /\ frameIdle

\* generate_orbit_path, up to the loop: Vec::with_capacity, orbital_period,
\* start_time
PathStart ==
    /\ pstate \in {"idle", "done"}
    /\ runs < MaxRuns
    /\ pstate' = "looping"
    /\ period' = orbital_period(psat)
    /\ index' = 0
    /\ path_points' = <<>>
    /\ sample_times' = <<>>
    /\ UNCHANGED <<psat, resolution, lastQuery, wall_clock, runs, first_run>>
    /\ UNCHANGED <<ingestVars, parseVars, interpVars, viewVars, labelVars, clockVars>>

\* generate_orbit_path: one turn of  for i in 0..resolution
PathStep ==
    /\ pstate = "looping"
    /\ index < resolution
    /\ path_points' = Append(path_points, OrbitSample(psat, period, resolution, index).point)
    /\ sample_times' = Append(sample_times, OrbitSample(psat, period, resolution, index).time)
    /\ index' = index + 1
    /\ UNCHANGED <<psat, resolution, pstate, period, lastQuery, wall_clock, runs,
                   first_run>>
    /\ UNCHANGED <<ingestVars, parseVars, interpVars, viewVars, labelVars, clockVars>>

\* generate_orbit_path: the loop is over, path_points is returned
PathReturn ==
    /\ pstate = "looping"
    /\ index >= resolution
    /\ pstate' = "done"
    /\ runs' = runs + 1
    /\ first_run' = IF runs = 0 THEN [sat |-> psat, path |-> path_points]
                    ELSE first_run
    /\ UNCHANGED <<psat, resolution, index, period, path_points, sample_times,
                   lastQuery, wall_clock>>
    /\ UNCHANGED <<ingestVars, parseVars, interpVars, viewVars, labelVars, clockVars>>

\* a position query: satellite.calculate(t)
Query ==
    /\ pstate \in {"idle", "done"}
    /\ \E t \in QueryTimes :
          lastQuery' = [time |-> t, prediction |-> calculate(psat, t)]
    /\ UNCHANGED <<psat, resolution, pstate, index, period, path_points,
                   sample_times, wall_clock, runs, first_run>>
    /\ UNCHANGED <<ingestVars, parseVars, interpVars, viewVars, labelVars, clockVars>>

\* time passes: Utc::now() moves to another value
ClockTick ==
    /\ \E t \in WallClock \ {wall_clock} : wall_clock' = t
    /\ UNCHANGED <<psat, resolution, pstate, index, period, path_points,
                   sample_times, lastQuery, runs, first_run>>
    /\ UNCHANGED <<ingestVars, parseVars, interpVars, viewVars, labelVars, clockVars>>

NextPath ==
    \/ PathStart
    \/ PathStep
    \/ PathReturn
    \/ Query
    \/ ClockTick

SpecPath == InitPath /\ [][NextPath]_vars

(***************************************************************************)
(* One record through the column parser                                    *)
(***************************************************************************)

\* the two ASCII digits of yy
TwoDigits(yy) == <<48 + (yy \div 10), 48 + (yy % 10)>>

\* the ISS record with the launch year and the epoch year columns set
YearLine(ly, ey) == Put(Put(Iss1, 9, TwoDigits(ly)), 18, TwoDigits(ey))

InitParse ==
    /\ launch_yy \in 0..99
    /\ epoch_yy \in 0..99
    /\ parsed = Pending
    /\ ingestIdle
    /\ pathIdle
    /\ interpIdle
    /\ viewIdle
    /\ frameIdle

\* Satellite::parse(name, line1, line2) on the record
ParseRecord ==
    /\ parsed = Pending
    /\ parsed' = ParseColumns(NameIss, YearLine(launch_yy, epoch_yy), Iss2)
    /\ UNCHANGED <<launch_yy, epoch_yy>>
    /\ UNCHANGED <<ingestVars, pathVars, interpVars, viewVars, labelVars, clockVars>>

NextParse ==
    \/ ParseRecord

SpecParse == InitParse /\ [][NextParse]_vars

(***************************************************************************)
(* Position interpolator over a cached path (position_at_time)             *)
(*                                                                         *)
(* Satellite::position_at_time is called by setup_satellites and           *)
(* update_positions but its body is not among the source files; it is      *)
(* written here from section 4.4 of the specification.  Times and the      *)
(* period are whole units; a position is a vector of numerators over one   *)
(* common denominator, so that interpolation is exact.                     *)
(***************************************************************************)

\* A faulty cycle time: the remainder takes the sign of the elapsed time, as
\* Rust's % does, and is negative before the anchor.
cycle_time_truncating(elapsed, p) == elapsed - p * TruncDiv(elapsed, p)

\* cycle_time = elapsed mod period, Euclidean: never negative
cycle_time(elapsed, p) == elapsed % p

\* A faulty segment index: segments counted from 1.
segment_index_from_one(cycle, p, segments, n) ==
    LET raw == ((cycle * segments) \div p) + 1
    IN  IF raw < 0 THEN 0 ELSE IF raw > n - 2 THEN n - 2 ELSE raw

\* segment_index = floor(cycle_time / time_per_segment), clamped to [0, N - 2],
\* time_per_segment being period / segments; floor, so that a negative
\* quotient goes below zero and is clamped
segment_index(cycle, p, segments, n) ==
    LET raw == IF cycle >= 0 THEN (cycle * segments) \div p
               ELSE 0 - (((0 - cycle) * segments + p - 1) \div p)
    IN  IF raw < 0 THEN 0 ELSE IF raw > n - 2 THEN n - 2 ELSE raw

\* t = frac(cycle_time / time_per_segment), clamped to [0, 1]: its numerator
\* over the denominator p; frac of a negative quotient is negative and is
\* clamped to 0
segment_t(cycle, p, segments) ==
    IF cycle >= 0 THEN (cycle * segments) % p ELSE 0

\* linear interpolation between a and b at tn / p: numerators over p
lerp(a, b, tn, p) ==
    [num |-> [c \in 1..3 |-> a[c] * p + (b[c] - a[c]) * tn], den |-> p]

\* position_at(target_time) on the path: empty path -> origin, single-point
\* path -> that point, else the interpolation in the segment of the cycle time
position_at(path, target_time) ==
    LET n == Len(path.points)
    IN  IF n = 0 THEN [num |-> <<0, 0, 0>>, den |-> 1]
        ELSE IF n = 1 THEN [num |-> path.points[1], den |-> 1]
        ELSE LET elapsed == target_time - path.base
                 cycle == cycle_time(elapsed, path.period)
                 i == segment_index(cycle, path.period, path.segments, n)
                 tn == segment_t(cycle, path.period, path.segments)
             IN  lerp(path.points[i + 1], path.points[i + 2], tn, path.period)

\* the most points a cached path has
MaxPoints == 4

\* the cycles before and after the anchor a query is moved by
MaxCycles == 2

\* the positions cached points are drawn from, the periods and the anchors
SamplePoints == {<<7, 0, -2>>, <<0, 5, 3>>, <<-6, -4, 1>>}
Periods == {4, 6, 7}
BaseTimes == {0, 10}

\* the paths: N points, and time_per_segment either period / N (the sampling
\* step) or period / (N - 1), which the specification leaves open
OrbitPaths ==
    UNION {[base : BaseTimes, period : Periods, segments : {n, n - 1},
            points : [1..n -> SamplePoints]] : n \in 2..MaxPoints}

InitInterp ==
    /\ \E path \in OrbitPaths, k \in (0 - MaxCycles)..MaxCycles :
          \E t \in 0..(path.period - 1) :
             interp = [path |-> path, k |-> k, t |-> t,
                       plain |-> Pending, shifted |-> Pending]
    /\ ingestIdle
    /\ pathIdle
    /\ parseIdle
    /\ viewIdle
    /\ frameIdle

\* position_at(base_time + t)
QueryPlain ==
    /\ interp.plain = Pending
    /\ interp' = [interp EXCEPT
                    !.plain = position_at(interp.path, interp.path.base + interp.t)]
    /\ UNCHANGED <<ingestVars, pathVars, parseVars, viewVars, labelVars, clockVars>>

\* position_at(base_time + k * P + t)
QueryShifted ==
    /\ interp.shifted = Pending
    /\ interp' = [interp EXCEPT
                    !.shifted = position_at(interp.path,
                                            interp.path.base
                                              + interp.k * interp.path.period
                                              + interp.t)]
    /\ UNCHANGED <<ingestVars, pathVars, parseVars, viewVars, labelVars, clockVars>>

NextInterp ==
    \/ QueryPlain
    \/ QueryShifted

SpecInterp == InitInterp /\ [][NextInterp]_vars

(***************************************************************************)
(* Labels: visibility and projection to the screen                         *)
(*                                                                         *)
(* Coordinates are whole numbers, so that lengths are compared by their    *)
(* squares and NDC and pixel coordinates are exact fractions num / den.    *)
(***************************************************************************)

VSub(a, b) == <<a[1] - b[1], a[2] - b[2], a[3] - b[3]>>

VDot(a, b) == a[1] * b[1] + a[2] * b[2] + a[3] * b[3]

\* A faulty is_visible: only a planet behind the camera is let through, one
\* beyond the satellite is not.
is_visible_behind_only(satellite_pos, camera_pos, earth_center, earth_radius) ==
    LET camera_to_satellite == VSub(satellite_pos, camera_pos)
        len2 == VDot(camera_to_satellite, camera_to_satellite)
        camera_to_earth == VSub(earth_center, camera_pos)
        dot == VDot(camera_to_earth, camera_to_satellite)
    IN  IF len2 = 0 THEN FALSE
        ELSE IF dot < 0 THEN TRUE
        ELSE VDot(camera_to_earth, camera_to_earth) * len2 - dot * dot
                > earth_radius * earth_radius * len2

\* A faulty is_visible: the distance is compared without its square root.
is_visible_squared(satellite_pos, camera_pos, earth_center, earth_radius) ==
    LET camera_to_satellite == VSub(satellite_pos, camera_pos)
        len2 == VDot(camera_to_satellite, camera_to_satellite)
        camera_to_earth == VSub(earth_center, camera_pos)
        dot == VDot(camera_to_earth, camera_to_satellite)
    IN  IF len2 = 0 THEN FALSE
        ELSE IF dot < 0 \/ dot > len2 THEN TRUE
        ELSE VDot(camera_to_earth, camera_to_earth) * len2 - dot * dot
                > earth_radius * len2

\* A faulty is_visible: the radius check is not strict.
is_visible_grazing(satellite_pos, camera_pos, earth_center, earth_radius) ==
    LET camera_to_satellite == VSub(satellite_pos, camera_pos)
        len2 == VDot(camera_to_satellite, camera_to_satellite)
        camera_to_earth == VSub(earth_center, camera_pos)
        dot == VDot(camera_to_earth, camera_to_satellite)
    IN  IF len2 = 0 THEN FALSE
        ELSE IF dot < 0 \/ dot > len2 THEN TRUE
        ELSE VDot(camera_to_earth, camera_to_earth) * len2 - dot * dot
                >= earth_radius * earth_radius * len2

\* A faulty is_visible: the whole line of sight is tested, not the segment.
is_visible_line(satellite_pos, camera_pos, earth_center, earth_radius) ==
    LET camera_to_satellite == VSub(satellite_pos, camera_pos)
        len2 == VDot(camera_to_satellite, camera_to_satellite)
        camera_to_earth == VSub(earth_center, camera_pos)
        dot == VDot(camera_to_earth, camera_to_satellite)
    IN  IF len2 = 0 THEN FALSE
        ELSE VDot(camera_to_earth, camera_to_earth) * len2 - dot * dot
                > earth_radius * earth_radius * len2

\* is_visible.  With len2 the squared distance to the satellite and dot the
\* product of camera_to_earth and camera_to_satellite, projection_length is
\* dot / sqrt(len2): it is below 0 iff dot < 0 and above the distance iff
\* dot > len2.  The squared distance of the closest point to the centre is
\* |camera_to_earth|^2 - dot^2 / len2, compared with the squared radius (the
\* radius is not negative).  A satellite at the camera has no direction:
\* normalize() gives NaN, every comparison is false and so is the result.
is_visible(satellite_pos, camera_pos, earth_center, earth_radius) ==
    LET camera_to_satellite == VSub(satellite_pos, camera_pos)
        len2 == VDot(camera_to_satellite, camera_to_satellite)
        camera_to_earth == VSub(earth_center, camera_pos)
        dot == VDot(camera_to_earth, camera_to_satellite)
    IN  IF len2 = 0 THEN FALSE
        ELSE IF dot < 0 \/ dot > len2 THEN TRUE
        ELSE VDot(camera_to_earth, camera_to_earth) * len2 - dot * dot
                > earth_radius * earth_radius * len2

\* view_projection * world_pos_homogeneous
MatVec(m, v) ==
    [r \in 1..4 |-> m[r][1] * v[1] + m[r][2] * v[2] + m[r][3] * v[3] + m[r][4] * v[4]]

\* projection_matrix * view_matrix of a camera at camera_pos that looks down
\* -Z with focal factor f: clip x and y are f times the offsets from the
\* camera, clip w is the depth in front of it
ViewProjection(camera_pos, f) ==
    <<<<f, 0, 0, 0 - f * camera_pos[1]>>,
      <<0, f, 0, 0 - f * camera_pos[2]>>,
      <<0, 0, 0, 1>>,
      <<0, 0, -1, camera_pos[3]>>>>

\* clip_space_pos of a world position
ClipSpace(world_pos, view_projection) ==
    MatVec(view_projection, <<world_pos[1], world_pos[2], world_pos[3], 1>>)

\* A faulty world_to_screen: a point on the camera plane (w = 0) is let through.
world_to_screen_on_plane(world_pos, view_projection, screen_width, screen_height) ==
    LET clip == ClipSpace(world_pos, view_projection)
        w == clip[4]
    IN  IF w < 0 THEN None
        ELSE IF clip[1] < 0 - w \/ clip[1] > w \/ clip[2] < 0 - w \/ clip[2] > w
        THEN None
        ELSE Some([x |-> [num |-> (clip[1] + w) * screen_width, den |-> 2 * w],
                   y |-> [num |-> (w - clip[2]) * screen_height, den |-> 2 * w]])

\* A faulty world_to_screen: Y is not flipped.
world_to_screen_unflipped(world_pos, view_projection, screen_width, screen_height) ==
    LET clip == ClipSpace(world_pos, view_projection)
        w == clip[4]
    IN  IF w <= 0 THEN None
        ELSE IF clip[1] < 0 - w \/ clip[1] > w \/ clip[2] < 0 - w \/ clip[2] > w
        THEN None
        ELSE Some([x |-> [num |-> (clip[1] + w) * screen_width, den |-> 2 * w],
                   y |-> [num |-> (clip[2] + w) * screen_height, den |-> 2 * w]])

\* world_to_screen.  ndc = clip.xyz / w with w > 0, so ndc.x < -1 is
\* clip.x < -w and ndc.x > 1 is clip.x > w; screen_x = (ndc.x + 1) * 0.5 * width
\* is (clip.x + w) * width / (2 * w), screen_y = (1 - ndc.y) * 0.5 * height is
\* (w - clip.y) * height / (2 * w).
world_to_screen(world_pos, view_projection, screen_width, screen_height) ==
    LET clip == ClipSpace(world_pos, view_projection)
        w == clip[4]
    IN  IF w <= 0 THEN None
        ELSE IF clip[1] < 0 - w \/ clip[1] > w \/ clip[2] < 0 - w \/ clip[2] > w
        THEN None
        ELSE Some([x |-> [num |-> (clip[1] + w) * screen_width, den |-> 2 * w],
                   y |-> [num |-> (w - clip[2]) * screen_height, den |-> 2 * w]])

\* the positions of the satellite and of the camera, the planet's radius
\* (its centre is Vec3::ZERO), the focal factors and the window sizes
SatellitePositions ==
    {<<x, y, z>> : x \in {-5, 0, 5}, y \in {0, 2, 3, 4}, z \in {0, 8}}
CameraPositions == {<<-5, 3, 0>>, <<0, 0, 8>>, <<-9, 0, 0>>}
EarthRadii == {0, 2, 3, 4}
FocalFactors == {1, 2}
WindowSizes == {<<800, 600>>, <<1280, 720>>}

InitView ==
    /\ \E s \in SatellitePositions, c \in CameraPositions, r \in EarthRadii,
          f \in FocalFactors, win \in WindowSizes :
          view = [satellite_pos |-> s, camera_pos |-> c,
                  earth_center |-> <<0, 0, 0>>, earth_radius |-> r,
                  view_projection |-> ViewProjection(c, f),
                  width |-> win[1], height |-> win[2],
                  visible |-> Pending, screen |-> Pending, before |-> Pending]
    /\ ingestIdle
    /\ pathIdle
    /\ parseIdle
    /\ interpIdle
    /\ frameIdle

\* update: let is_blocked = !is_visible(...)
CheckVisible ==
    /\ view.visible = Pending
    /\ view' = [view EXCEPT
                  !.visible = Done(is_visible(view.satellite_pos, view.camera_pos,
                                              view.earth_center, view.earth_radius))]
    /\ UNCHANGED <<ingestVars, pathVars, parseVars, interpVars, labelVars, clockVars>>

\* update: let screen_pos = world_to_screen(...)
Project ==
    /\ view.screen = Pending
    /\ view' = [view EXCEPT
                  !.screen = world_to_screen(view.satellite_pos, view.view_projection,
                                             view.width, view.height)]
    /\ UNCHANGED <<ingestVars, pathVars, parseVars, interpVars, labelVars, clockVars>>

\* the satellite's Transform is written before the next frame's pass, with a
\* new position or the same; before keeps where it was and what the pass found
MoveSatellite ==
    /\ view.visible # Pending
    /\ view.screen # Pending
    /\ view.before = Pending
    /\ \E s \in SatellitePositions :
          view' = [view EXCEPT
                     !.satellite_pos = s,
                     !.visible = Pending,
                     !.screen = Pending,
                     !.before = [satellite_pos |-> view.satellite_pos,
                                 visible |-> view.visible]]
    /\ UNCHANGED <<ingestVars, pathVars, parseVars, interpVars, labelVars, clockVars>>

NextView ==
    \/ CheckVisible
    \/ Project
    \/ MoveSatellite

SpecView == InitView /\ [][NextView]_vars

(***************************************************************************)
(* Labels: the reconciliation pass, frame after frame                      *)
(*                                                                         *)
(* update runs once a frame.  It writes the labels that exist in place and *)
(* queues spawns and despawns as Commands, which the schedule applies      *)
(* after the system has returned.                                          *)
(***************************************************************************)

\* how many Satellite entities there are, and how many passes are followed
MaxSats == 2
MaxPasses == 3

\* the camera (fixed here: it looks down -Z from <<0, 0, 8>>), the planet
\* (EARTH_RADIUS, scaled) and the window
LabelScene ==
    [camera_pos |-> <<0, 0, 8>>, view_projection |-> ViewProjection(<<0, 0, 8>>, 1),
     earth_center |-> <<0, 0, 0>>, earth_radius |-> 3, width |-> 800, height |-> 600]

\* where a satellite may be: in sight, in sight elsewhere, behind the planet,
\* off the screen
LabelPositions == {<<0, 4, 0>>, <<5, 4, 0>>, <<0, 0, -5>>, <<9, 0, 0>>}

\* existing_labels: satellite entity -> label entity, collected from
\* label_query (a HashMap keeps one label for a satellite)
existing_labels(lbls) ==
    [s \in {l.satellite_entity : l \in lbls} |->
        (CHOOSE l \in lbls : l.satellite_entity = s).entity]

\* A faulty failure branch: the label of a satellite out of sight is despawned.
hide_label_despawn(st, existing, satellite_entity) ==
    IF satellite_entity \in DOMAIN existing
    THEN [st EXCEPT !.despawn = @ \cup {existing[satellite_entity]}]
    ELSE st

\* if is_blocked || is_ofscreen: the label the satellite has, if any, is set
\* to Visibility::Hidden; continue
hide_label(st, existing, satellite_entity) ==
    IF satellite_entity \in DOMAIN existing
    THEN [st EXCEPT !.labels =
            {IF l.entity = existing[satellite_entity]
             THEN [l EXCEPT !.visibility = "Hidden"] ELSE l : l \in st.labels}]
    ELSE st

\* A faulty update branch: the label is despawned and spawned anew.
show_label_respawn(st, label_entity, screen_pos) ==
    LET old == CHOOSE l \in st.labels : l.entity = label_entity
    IN  [st EXCEPT !.despawn = @ \cup {label_entity},
                   !.spawn = Append(@, [entity |-> st.next,
                                        satellite_entity |-> old.satellite_entity,
                                        visibility |-> "Inherited",
                                        left |-> screen_pos.x, top |-> screen_pos.y]),
                   !.next = @ + 1]

\* A faulty update branch: the position is written, the visibility is not.
show_label_position_only(st, label_entity, screen_pos) ==
    [st EXCEPT !.labels =
        {IF l.entity = label_entity
         THEN [l EXCEPT !.left = screen_pos.x, !.top = screen_pos.y]
         ELSE l : l \in st.labels}]

\* update existing label: Visibility::Inherited, node.left and node.top
show_label(st, label_entity, screen_pos) ==
    [st EXCEPT !.labels =
        {IF l.entity = label_entity
         THEN [l EXCEPT !.visibility = "Inherited",
                        !.left = screen_pos.x, !.top = screen_pos.y]
         ELSE l : l \in st.labels}]

\* create a new label: a spawn is queued; the entity is allocated at once and
\* Node brings Visibility with its default, Inherited
spawn_label(st, satellite_entity, screen_pos) ==
    [st EXCEPT !.spawn = Append(@, [entity |-> st.next,
                                    satellite_entity |-> satellite_entity,
                                    visibility |-> "Inherited",
                                    left |-> screen_pos.x, top |-> screen_pos.y]),
               !.next = @ + 1]

\* the body of  for (satellite_entity, satellite_transform, satellite)
reconcile(st, existing, satellite_entity, satellite_pos) ==
    LET is_blocked == ~is_visible(satellite_pos, LabelScene.camera_pos,
                                  LabelScene.earth_center, LabelScene.earth_radius)
        screen_pos == world_to_screen(satellite_pos, LabelScene.view_projection,
                                      LabelScene.width, LabelScene.height)
        is_ofscreen == screen_pos.tag = "None"
    IN  IF is_blocked \/ is_ofscreen THEN hide_label(st, existing, satellite_entity)
        ELSE IF satellite_entity \in DOMAIN existing
        THEN show_label(st, existing[satellite_entity], screen_pos.val)
        ELSE spawn_label(st, satellite_entity, screen_pos.val)

\* for ... in satellite_query.iter(), here in the order of the entities
RECURSIVE process_satellites(_, _, _, _)
process_satellites(st, existing, transforms, todo) ==
    IF todo = {} THEN st
    ELSE LET s == CHOOSE x \in todo : \A y \in todo : x <= y
         IN  process_satellites(reconcile(st, existing, s, transforms[s]),
                                existing, transforms, todo \ {s})

\* clean up labels for satellites that no longer exist
cleanup(st, satellite_entities) ==
    [st EXCEPT !.despawn = @ \cup
        {l.entity : l \in {m \in st.labels : m.satellite_entity \notin satellite_entities}}]

\* update.  Without the window (or the camera, or the label container) it
\* returns at once; these two are spawned at startup and stay.
update_labels(lbls, transforms, has_window, next) ==
    LET st == [labels |-> lbls, spawn |-> <<>>, despawn |-> {}, next |-> next]
    IN  IF ~has_window THEN st
        ELSE cleanup(process_satellites(st, existing_labels(lbls), transforms,
                                        DOMAIN transforms),
                     DOMAIN transforms)

\* the queued Commands are applied: spawns, then despawns
apply_deferred(lbls, cmds) ==
    {l \in lbls \cup {cmds.spawn[k] : k \in DOMAIN cmds.spawn} :
        l.entity \notin cmds.despawn}

InitLabels ==
    /\ sat_transforms \in [1..MaxSats -> LabelPositions]
    /\ labels = {}
    /\ commands = [spawn |-> <<>>, despawn |-> {}]
    /\ next_entity = 1
    /\ window_open \in BOOLEAN
    /\ pass = [count |-> 0, stage |-> "idle", completed |-> FALSE,
               before |-> {}, transforms |-> <<>>]
    /\ time_state = Pending
    /\ tick = Pending
    /\ ingestIdle
    /\ pathIdle
    /\ parseIdle
    /\ interpIdle
    /\ viewIdle

\* the Update schedule runs update
LabelsUpdate ==
    /\ pass.stage \in {"applied", "idle"}
    /\ pass.count < MaxPasses
    /\ LET st == update_labels(labels, sat_transforms, window_open, next_entity)
       IN  /\ labels' = st.labels
           /\ commands' = [spawn |-> st.spawn, despawn |-> st.despawn]
           /\ next_entity' = st.next
    /\ pass' = [count |-> pass.count + 1, stage |-> "ran", completed |-> window_open,
                before |-> labels, transforms |-> sat_transforms]
    /\ UNCHANGED <<sat_transforms, window_open, clockVars>>
    /\ UNCHANGED <<ingestVars, pathVars, parseVars, interpVars, viewVars>>

\* the schedule applies the Commands the pass queued
ApplyDeferred ==
    /\ pass.stage = "ran"
    /\ labels' = apply_deferred(labels, commands)
    /\ commands' = [spawn |-> <<>>, despawn |-> {}]
    /\ pass' = [pass EXCEPT !.stage = "applied"]
    /\ UNCHANGED <<sat_transforms, next_entity, window_open, clockVars>>
    /\ UNCHANGED <<ingestVars, pathVars, parseVars, interpVars, viewVars>>

\* Between two passes a satellite's Transform is written (update_positions).
\* What is remembered of the last pass is dropped when the world changes.
WriteTransform ==
    /\ pass.stage \in {"applied", "idle"}
    /\ \E s \in DOMAIN sat_transforms, p \in LabelPositions :
          sat_transforms' = [sat_transforms EXCEPT ![s] = p]
    /\ pass' = [count |-> pass.count, stage |-> "idle", completed |-> FALSE,
                before |-> {}, transforms |-> <<>>]
    /\ UNCHANGED <<labels, commands, next_entity, window_open, clockVars>>
    /\ UNCHANGED <<ingestVars, pathVars, parseVars, interpVars, viewVars>>

\* between two passes a Satellite entity ceases to exist
DespawnSatellite ==
    /\ pass.stage \in {"applied", "idle"}
    /\ \E s \in DOMAIN sat_transforms :
          sat_transforms' = [x \in DOMAIN sat_transforms \ {s} |-> sat_transforms[x]]
    /\ pass' = [count |-> pass.count, stage |-> "idle", completed |-> FALSE,
                before |-> {}, transforms |-> <<>>]
    /\ UNCHANGED <<labels, commands, next_entity, window_open, clockVars>>
    /\ UNCHANGED <<ingestVars, pathVars, parseVars, interpVars, viewVars>>

\* between two passes the window is closed or opened
WindowChange ==
    /\ pass.stage \in {"applied", "idle"}
    /\ window_open' = ~window_open
    /\ pass' = [count |-> pass.count, stage |-> "idle", completed |-> FALSE,
                before |-> {}, transforms |-> <<>>]
    /\ UNCHANGED <<sat_transforms, labels, commands, next_entity, clockVars>>
    /\ UNCHANGED <<ingestVars, pathVars, parseVars, interpVars, viewVars>>

NextLabels ==
    \/ LabelsUpdate
    \/ ApplyDeferred
    \/ WriteTransform
    \/ DespawnSatellite
    \/ WindowChange

SpecLabels == InitLabels /\ [][NextLabels]_vars

(***************************************************************************)
(* The simulation clock                                                    *)
(*                                                                         *)
(* speed_mult is held in units of 1 / SpeedUnit, so that a half and a      *)
(* quarter can be told from 0 and from 1; sim_time is in milliseconds from *)
(* the default time, real_delta in microseconds.                           *)
(***************************************************************************)

SpeedUnit == 4
MaxSpeed == 4096

\* the sim_time values DateTime<Utc> can hold (scaled down), and the
\* time.delta_secs_f64() of a frame
RepresentableTimes == -25..25
RealDeltas == {2500, 16667}

\* f64::clamp: assert!(min <= max), then the value brought into [min, max]
clamp(x, lo, hi) ==
    IF lo > hi THEN Panic
    ELSE Ok(IF x < lo THEN lo ELSE IF x > hi THEN hi ELSE x)

\* A faulty step_backward: a speed of 1 is halved too.
step_backward_halving(ts) ==
    [ts EXCEPT !.is_paused = FALSE,
               !.speed_mult =
                   IF ts.speed_mult >= SpeedUnit THEN ts.speed_mult \div 2
                   ELSE clamp(ts.speed_mult * 2, 0 - MaxSpeed * SpeedUnit,
                              0 - SpeedUnit).val]

\* TimeState::step_backward
step_backward(ts) ==
    [ts EXCEPT !.is_paused = FALSE,
               !.speed_mult =
                   IF ts.speed_mult > SpeedUnit THEN ts.speed_mult \div 2
                   ELSE IF ts.speed_mult = SpeedUnit THEN 0 - SpeedUnit
                   ELSE clamp(ts.speed_mult * 2, 0 - MaxSpeed * SpeedUnit,
                              0 - SpeedUnit).val]

\* TimeState::step_forward
step_forward(ts) ==
    [ts EXCEPT !.is_paused = FALSE,
               !.speed_mult =
                   IF ts.speed_mult < 0 - SpeedUnit THEN TruncDiv(ts.speed_mult, 2)
                   ELSE IF ts.speed_mult = 0 - SpeedUnit THEN SpeedUnit
                   ELSE clamp(ts.speed_mult * 2, SpeedUnit,
                              MaxSpeed * SpeedUnit).val]

\* TimeState::reset_to_normal
reset_to_normal(ts) == [ts EXCEPT !.speed_mult = SpeedUnit, !.is_paused = FALSE]

\* ui.rs, handle_time_control: what pressing a button does to the TimeState,
\* or Panic.  Forward from a speed below -1 is
\* (speed_mult / 2.0).clamp(1.0, -1.0).
handle_time_control(ts, button) ==
    IF button = "Backward" THEN Ok(step_backward(ts))
    ELSE IF button = "Reset" THEN Ok(reset_to_normal(ts))
    ELSE IF button = "Forward"
    THEN IF ts.speed_mult < 0 - SpeedUnit
         THEN LET c == clamp(TruncDiv(ts.speed_mult, 2), SpeedUnit, 0 - SpeedUnit)
              IN  IF c.tag = "Panic" THEN Panic
                  ELSE Ok([ts EXCEPT !.is_paused = FALSE, !.speed_mult = c.val])
         ELSE Ok(step_forward(ts))
    ELSE Ok(ts)

\* the TimeState method a pressed button stands for
step(ts, button) ==
    IF button = "Backward" THEN step_backward(ts)
    ELSE IF button = "Reset" THEN reset_to_normal(ts)
    ELSE IF button = "Forward" THEN step_forward(ts)
    ELSE ts

\* A faulty update: the milliseconds are rounded down, not towards zero.
update_time_floor(ts, real_delta) ==
    IF ts.is_paused THEN ts
    ELSE LET new_time == ts.sim_time
                            + ((real_delta * ts.speed_mult) \div (SpeedUnit * 1000))
         IN  IF new_time \in RepresentableTimes
             THEN [ts EXCEPT !.sim_time = new_time] ELSE ts

\* time.rs, update: (sim_delta_seconds * 1000.0) as i64 milliseconds are
\* added if checked_add_signed gives Some
update_time(ts, real_delta) ==
    IF ts.is_paused THEN ts
    ELSE LET new_time == ts.sim_time
                            + TruncDiv(real_delta * ts.speed_mult, SpeedUnit * 1000)
         IN  IF new_time \in RepresentableTimes
             THEN [ts EXCEPT !.sim_time = new_time] ELSE ts

\* TimeState::default(), and the pause as another system may have set it
\* (is_paused is a pub field); no tick has begun
InitClock ==
    /\ \E p \in BOOLEAN :
          time_state = [is_paused |-> p, speed_mult |-> SpeedUnit, sim_time |-> 0]
    /\ tick = [button |-> "None", real_delta |-> 0,
               ran |-> {"update", "handle_time_control", "rotate", "update_datetime"},
               writers |-> {}, seen |-> {}, upd |-> Pending, press |-> Pending]
    /\ sat_transforms = <<>>
    /\ labels = {}
    /\ commands = Pending
    /\ next_entity = 0
    /\ window_open = FALSE
    /\ pass = Pending
    /\ ingestIdle
    /\ pathIdle
    /\ parseIdle
    /\ interpIdle
    /\ viewIdle

\* a tick begins: the button the pointer presses, if any, and the frame's delta
BeginTick ==
    /\ tick.ran = {"update", "handle_time_control", "rotate", "update_datetime"}
    /\ \E b \in {"None", "Backward", "Reset", "Forward"}, d \in RealDeltas :
          tick' = [button |-> b, real_delta |-> d, ran |-> {}, writers |-> {},
                   seen |-> {}, upd |-> Pending, press |-> Pending]
    /\ UNCHANGED <<time_state, labelVars>>
    /\ UNCHANGED <<ingestVars, pathVars, parseVars, interpVars, viewVars>>

\* the Update schedule runs time.rs update, in no fixed place among the others
TimeUpdate ==
    /\ "update" \notin tick.ran
    /\ time_state' = update_time(time_state, tick.real_delta)
    /\ tick' = [tick EXCEPT
                  !.ran = @ \cup {"update"},
                  !.writers = IF time_state' # time_state THEN @ \cup {"update"}
                              ELSE @,
                  !.upd = [before |-> time_state, after |-> time_state']]
    /\ UNCHANGED labelVars
    /\ UNCHANGED <<ingestVars, pathVars, parseVars, interpVars, viewVars>>

\* the Update schedule runs the button handler; the TimeState goes through
\* the methods of time.rs, and what ui.rs makes of the same press is kept
HandleTimeControl ==
    /\ "handle_time_control" \notin tick.ran
    /\ time_state' = step(time_state, tick.button)
    /\ tick' = [tick EXCEPT
                  !.ran = @ \cup {"handle_time_control"},
                  !.writers = IF time_state' # time_state
                              THEN @ \cup {"handle_time_control"} ELSE @,
                  !.press = IF tick.button = "None" THEN Pending
                            ELSE [before |-> time_state, after |-> time_state',
                                  ui |-> handle_time_control(time_state, tick.button)]]
    /\ UNCHANGED labelVars
    /\ UNCHANGED <<ingestVars, pathVars, parseVars, interpVars, viewVars>>

\* the Update schedule runs a system that reads the TimeState: rotate
\* (is_paused, speed_mult) or update_datetime (speed_mult)
ReadClock ==
    /\ \E r \in {"rotate", "update_datetime"} \ tick.ran :
          tick' = [tick EXCEPT !.ran = @ \cup {r},
                               !.seen = @ \cup {time_state.speed_mult}]
    /\ UNCHANGED <<time_state, labelVars>>
    /\ UNCHANGED <<ingestVars, pathVars, parseVars, interpVars, viewVars>>

NextClock ==
    \/ BeginTick
    \/ TimeUpdate
    \/ HandleTimeControl
    \/ ReadClock

SpecClock == InitClock /\ [][NextClock]_vars

(***************************************************************************)
(* Properties                                                              *)
(***************************************************************************)

\* the catalogue records of batch b that are well formed, in input order
WellFormedOf(b) == SelectSeq(b, LAMBDA k : Catalogue[k].wellFormed)

\* whether the satellites sats are, one for one and in order, those of the
\* records ks
SatellitesOf(sats, ks) ==
    /\ Len(sats) = Len(ks)
    /\ \A i \in 1..Len(ks) :
          /\ sats[i].name = Trim(Catalogue[ks[i]].name)
          /\ sats[i].elements = Catalogue[ks[i]].elements

\* the worker thread has ended, by returning or by panicking
WorkerEnded == worker \in {"returned", "panicked"}

\* C1: batch parsing of a text that was read returns exactly the satellites of
\* its well-formed records, in input order: a malformed record is left out and
\* every well-formed record is kept.
C1_BatchReturnsWellFormedRecords ==
    (WorkerEnded /\ source = "ok") =>
        /\ worker = "returned"
        /\ result.tag = "Ok"
        /\ SatellitesOf(result.val, WellFormedOf(batch))

\* C2: a record whose line 1 or line 2 has fewer than 69 characters parses to
\* None, and the batch goes on to its last chunk.
C2_ShortLineIsRejected ==
    \A c \in 1..Len(outcomes) :
        LET ch == Chunk(Lines(batch, tail), c)
        IN  (ChunkIsRecord(ch)
               /\ (CharCount(ch[2]) < LineMin \/ CharCount(ch[3]) < LineMin)) =>
                /\ outcomes[c] = "None"
                /\ (WorkerEnded =>
                       /\ worker = "returned"
                       /\ Len(outcomes) = NumChunks(Lines(batch, tail)))

\* C3: for every input text, multi-byte characters in the fixed columns
\* included, batch parsing runs to its end: no record makes the parser panic
\* or cuts the batch short.
C3_ParsingNeverPanics ==
    /\ worker # "panicked"
    /\ \A c \in 1..Len(outcomes) : outcomes[c] # "Panic"
    /\ (worker = "returned" /\ source = "ok") =>
          Len(outcomes) = NumChunks(Lines(batch, tail))

\* C4: a source that cannot be read makes the fetch return an error, and the
\* fetch returns Ok only when the text was read.
C4_UnreadableSourceIsError ==
    worker = "returned" =>
        /\ source = "unreadable" => result.tag = "Err"
        /\ result.tag = "Ok" => source = "ok"

\* C5: a text that holds no record (it is empty, or has fewer than three
\* lines) is not an error: the fetch returns Ok with no satellite, and startup
\* spawns nothing.
C5_NoRecordsIsOkAndEmpty ==
    (source = "ok" /\ Len(Lines(batch, tail)) < ChunkSize) =>
        /\ worker # "panicked"
        /\ worker = "returned" => result = Ok(<<>>)
        /\ spawned = <<>>
        /\ orbits = <<>>

\* C5 happens: a two-line text was fetched as Ok(<<>>) and startup is over
C5_Witness ==
    /\ source = "ok"
    /\ batch = <<>>
    /\ tail = 2
    /\ result = Ok(<<>>)
    /\ main = "running"
    /\ spawned = <<>>

C8_EpochFailureYieldsNoPosition ==
    (lastQuery # Pending /\ ~psat.elements.epochOk) =>
        lastQuery.prediction = None

\* C9: the period of path generation is 1440 minutes divided by the mean
\* motion when the mean motion is above zero, 90 minutes otherwise, and is
\* above zero always.
C9_OrbitalPeriod ==
    pstate \in {"looping", "done"} =>
        /\ period.num > 0
        /\ period.den > 0
        /\ psat.elements.mean_motion > 0 =>
              period.num * psat.elements.mean_motion
                 = MinutesPerDay * MeanMotionScale * period.den
        /\ psat.elements.mean_motion <= 0 =>
              period.num = FallbackPeriod * period.den

\* C9 happens: a path was generated with the fallback period, mean motion 0
C9_Witness ==
    /\ pstate = "done"
    /\ resolution > 0
    /\ psat.elements.mean_motion = 0
    /\ period = [num |-> FallbackPeriod, den |-> 1]

\* C10: the path has exactly resolution points, and its i-th point (from 0) is
\* sampled at the base time plus i / resolution of the period, the base time
\* being the epoch: (t - B) * R = i * period, in seconds.
C10_SamplesAtExactFractions ==
    pstate = "done" =>
        /\ Len(path_points) = resolution
        /\ \A k \in 1..Len(sample_times) :
              (sample_times[k] - psat.elements.datetime) * resolution * period.den
                 = (k - 1) * period.num * 60

C13_NoFrameSeesPartialPath ==
    /\ frames > 0 =>
          /\ main = "running"
          /\ orbits = loaded
    /\ main = "rendering" => frames = 0
    /\ \A i \in 1..Len(orbits) : Len(orbits[i]) = OrbitResolution

\* C13 happens: two frames have run after a startup that rendered a path
C13_Witness ==
    /\ frames = 2
    /\ main = "running"
    /\ Len(orbits) >= 1
    /\ orbits = loaded

\* whether two positions, each numerators over a denominator, are the same
SamePosition(p, q) ==
    \A c \in 1..3 : p.num[c] * q.den = q.num[c] * p.den

\* C14: position_at is cyclic: the position asked for k periods away from
\* base_time + t, k of either sign, is the position at base_time + t.
C14_CyclicalInvariance ==
    (interp.plain # Pending /\ interp.shifted # Pending) =>
        SamePosition(interp.shifted, interp.plain)

\* C14 happens: a query two periods before the anchor, inside a segment, gave
\* the position of the plain query, which is none of the cached points
C14_Witness ==
    /\ interp.plain # Pending
    /\ interp.shifted # Pending
    /\ interp.k = -2
    /\ interp.t > 0
    /\ SamePosition(interp.shifted, interp.plain)
    /\ \A i \in 1..Len(interp.path.points) :
          ~SamePosition(interp.plain, [num |-> interp.path.points[i], den |-> 1])

\* C15: position_at(base_time) is the first cached sample, exactly.
C15_BoundaryExactness ==
    (interp.plain # Pending /\ interp.t = 0) =>
        SamePosition(interp.plain, [num |-> interp.path.points[1], den |-> 1])

\* C15 happens: the anchor was asked for on a path whose second point differs
\* from its first
C15_Witness ==
    /\ interp.plain # Pending
    /\ interp.t = 0
    /\ interp.path.points[1] # interp.path.points[2]
    /\ SamePosition(interp.plain, [num |-> interp.path.points[1], den |-> 1])

\* the geometry of the label pass: the camera-to-satellite vector, its squared
\* length, the camera-to-centre vector and the product of the two
SightLine == VSub(view.satellite_pos, view.camera_pos)
SightLen2 == VDot(SightLine, SightLine)
ToCentre == VSub(view.earth_center, view.camera_pos)
SightDot == VDot(ToCentre, SightLine)

\* the scalar projection of the centre on the line of sight, SightDot /
\* sqrt(SightLen2), is below 0 or above the distance to the satellite
ProjectionOutside == SightLen2 > 0 /\ (SightDot < 0 \/ SightDot > SightLen2)

\* the scalar projection is within [0, distance to the satellite]
ProjectionInside == SightLen2 > 0 /\ SightDot >= 0 /\ SightDot <= SightLen2

VCross(a, b) ==
    <<a[2] * b[3] - a[3] * b[2], a[3] * b[1] - a[1] * b[3], a[1] * b[2] - a[2] * b[1]>>

\* the squared distance from the centre to the line of sight, times SightLen2
ApproachSquared == VDot(VCross(ToCentre, SightLine), VCross(ToCentre, SightLine))

\* the squared radius, times SightLen2
RadiusSquared == view.earth_radius * view.earth_radius * SightLen2

\* C16: is_visible is true whenever the projection of the planet's centre on
\* the line of sight is negative or longer than the distance to the
\* satellite, whatever the radius.
C16_ProjectionOutsideIsVisible ==
    (view.visible # Pending /\ ProjectionOutside) => view.visible.val = TRUE

\* C16 happens: the planet lies beyond the satellite, on the line of sight and
\* closer to it than its radius, and the satellite is visible
C16_Witness ==
    /\ view.visible # Pending
    /\ SightLen2 > 0
    /\ SightDot > SightLen2
    /\ ApproachSquared < RadiusSquared
    /\ view.visible.val = TRUE

\* C17: with the projection inside [0, distance], is_visible is true iff the
\* closest approach of the line of sight to the centre is strictly above the
\* radius; a pass after the approach fell below the radius finds false where
\* the pass before found true, and with the geometry unchanged the result is
\* unchanged.
C17_InsideVisibleIffAboveRadius ==
    /\ (view.visible # Pending /\ ProjectionInside) =>
          (view.visible.val <=> ApproachSquared > RadiusSquared)
    /\ (view.visible # Pending /\ view.before # Pending
          /\ view.before.satellite_pos = view.satellite_pos) =>
          view.visible = view.before.visible

\* C17 happens: the satellite was visible, moved so that the line of sight
\* passes inside the planet, and is found not visible
C17_Witness ==
    /\ view.visible # Pending
    /\ view.before # Pending
    /\ view.before.visible.val = TRUE
    /\ ProjectionInside
    /\ ApproachSquared < RadiusSquared
    /\ view.visible.val = FALSE

\* C18, as claimed: a line of sight that exactly grazes the planet (closest
\* approach equal to the radius, closest point inside the segment) is visible.
C18_TangencyIsVisible ==
    (view.visible # Pending /\ ProjectionInside /\ ApproachSquared = RadiusSquared) =>
        view.visible.val = TRUE

\* C18, amended: a line of sight that exactly grazes the planet is not
\* visible: the radius check is strict.
C18_TangencyIsNotVisible ==
    (view.visible # Pending /\ ProjectionInside /\ ApproachSquared = RadiusSquared) =>
        view.visible.val = FALSE

\* C18 happens: the line of sight grazes a planet of radius 3 and the
\* satellite is found not visible
C18_Witness ==
    /\ view.visible # Pending
    /\ ProjectionInside
    /\ view.earth_radius = 3
    /\ ApproachSquared = RadiusSquared
    /\ view.visible.val = FALSE

\* clip-space x, y and w of the satellite
ClipX == ClipSpace(view.satellite_pos, view.view_projection)[1]
ClipY == ClipSpace(view.satellite_pos, view.view_projection)[2]
ClipW == ClipSpace(view.satellite_pos, view.view_projection)[4]

\* C19: world_to_screen gives no screen coordinate for a point whose clip w
\* is zero or negative, whatever its x and y.
C19_BehindCameraIsRejected ==
    (view.screen # Pending /\ ClipW <= 0) => view.screen = None

\* C19 happens: a point on the camera plane with clip x = y = 0 is rejected
C19_Witness ==
    /\ view.screen = None
    /\ ClipW = 0
    /\ ClipX = 0
    /\ ClipY = 0

\* C20: with clip w > 0, world_to_screen gives none iff |ndc.x| > 1 or
\* |ndc.y| > 1; else x = (ndc.x + 1) / 2 * width and y = (1 - ndc.y) / 2 * height,
\* within 0..width and 0..height, and ndc.y = 1 is the top row y = 0.
C20_ScreenMapping ==
    (view.screen # Pending /\ ClipW > 0) =>
        /\ view.screen = None <=>
              (ClipX > ClipW \/ ClipX < 0 - ClipW \/ ClipY > ClipW \/ ClipY < 0 - ClipW)
        /\ view.screen # None =>
              LET px == view.screen.val.x
                  py == view.screen.val.y
              IN  /\ px.den > 0 /\ py.den > 0
                  /\ px.num * 2 * ClipW = (ClipX + ClipW) * view.width * px.den
                  /\ py.num * 2 * ClipW = (ClipW - ClipY) * view.height * py.den
                  /\ 0 <= px.num /\ px.num <= view.width * px.den
                  /\ 0 <= py.num /\ py.num <= view.height * py.den
                  /\ ClipY = ClipW => py.num = 0

\* C20 happens: a point with ndc.y = 1 is mapped to the top row, right of the
\* left edge
C20_Witness ==
    /\ view.screen # Pending
    /\ view.screen # None
    /\ ClipW > 0
    /\ ClipY = ClipW
    /\ view.screen.val.y.num = 0
    /\ view.screen.val.x.num > 0

\* the last pass ran to its end and its Commands have been applied
PassDone == pass.stage = "applied" /\ pass.count > 0 /\ pass.completed

\* the occlusion test and the projection both succeed for a satellite there
Succeeds(pos) ==
    /\ is_visible(pos, LabelScene.camera_pos, LabelScene.earth_center,
                  LabelScene.earth_radius)
    /\ world_to_screen(pos, LabelScene.view_projection, LabelScene.width,
                       LabelScene.height).tag = "Some"

\* the pixel position of a satellite there
PixelOf(pos) ==
    world_to_screen(pos, LabelScene.view_projection, LabelScene.width,
                    LabelScene.height).val

\* C21: a satellite never has two labels; after a pass in which a satellite
\* is in sight and on the screen it has a label at the new pixel position,
\* which is the label entity it had before the pass if it had one; and no
\* label of a satellite that exists is gone after the pass.
C21_LabelUpsertNeverRecreates ==
    /\ \A l1, l2 \in labels : l1.satellite_entity = l2.satellite_entity => l1 = l2
    /\ PassDone =>
          /\ \A s \in DOMAIN pass.transforms :
                Succeeds(pass.transforms[s]) =>
                    \E l \in labels :
                        /\ l.satellite_entity = s
                        /\ l.left = PixelOf(pass.transforms[s]).x
                        /\ l.top = PixelOf(pass.transforms[s]).y
                        /\ \A b \in pass.before :
                              b.satellite_entity = s => b.entity = l.entity
          /\ \A b \in pass.before :
                b.satellite_entity \in DOMAIN pass.transforms =>
                    \E l \in labels : l.entity = b.entity

\* a pass has moved the label a satellite already had
C21_Witness ==
    /\ PassDone
    /\ \E b \in pass.before, l \in labels :
          /\ b.satellite_entity \in DOMAIN pass.transforms
          /\ Succeeds(pass.transforms[b.satellite_entity])
          /\ l.entity = b.entity
          /\ l.left # b.left

\* C22: after a pass in which a satellite is blocked or off the screen, the
\* label it had is there still, hidden, with the position it had; and a
\* satellite that had no label has none.
C22_FailureHidesAndKeeps ==
    PassDone =>
        \A s \in DOMAIN pass.transforms :
            ~Succeeds(pass.transforms[s]) =>
                /\ \A b \in pass.before :
                      b.satellite_entity = s =>
                          [b EXCEPT !.visibility = "Hidden"] \in labels
                /\ (\A b \in pass.before : b.satellite_entity # s) =>
                          (\A l \in labels : l.satellite_entity # s)

\* a pass has hidden a label that was shown
C22_Witness ==
    /\ PassDone
    /\ \E b \in pass.before :
          /\ b.satellite_entity \in DOMAIN pass.transforms
          /\ ~Succeeds(pass.transforms[b.satellite_entity])
          /\ b.visibility = "Inherited"
          /\ [b EXCEPT !.visibility = "Hidden"] \in labels

\* C23: once a frame's pass has run and its Commands are applied, every label
\* that is left belongs to a satellite that existed in the pass, and every
\* label of such a satellite is left.
C23_NoOrphanAfterFrame ==
    (pass.stage = "applied" /\ pass.count > 0) =>
        /\ \A l \in labels : l.satellite_entity \in DOMAIN pass.transforms
        /\ \A b \in pass.before :
              b.satellite_entity \in DOMAIN pass.transforms =>
                  \E l \in labels : l.entity = b.entity

\* C30: after a pass that ran to its end, every label belongs to a satellite
\* of that pass and is hidden exactly when that satellite was blocked or off
\* the screen; a label that is shown is at the pixel position of that pass.
C30_HiddenIffFailedInPass ==
    PassDone =>
        \A l \in labels :
            /\ l.satellite_entity \in DOMAIN pass.transforms
            /\ (l.visibility = "Hidden") <=>
                  ~Succeeds(pass.transforms[l.satellite_entity])
            /\ l.visibility # "Hidden" =>
                  /\ l.left = PixelOf(pass.transforms[l.satellite_entity]).x
                  /\ l.top = PixelOf(pass.transforms[l.satellite_entity]).y

\* a label that was hidden is shown again, at another place
C30_Witness ==
    /\ PassDone
    /\ \E b \in pass.before, l \in labels :
          /\ b.visibility = "Hidden"
          /\ l.entity = b.entity
          /\ l.visibility = "Inherited"
          /\ l.left # b.left

\* C24: a satellite is spawned or an orbit rendered only once the worker has
\* returned Ok with its whole loop done and the startup system has joined it;
\* after a worker that returned an error or panicked, nothing is spawned and
\* the startup system has returned as usual.
C24_JoinBeforeSpawn ==
    /\ (spawned # <<>> \/ orbits # <<>>) =>
          /\ worker = "returned"
          /\ result.tag = "Ok"
          /\ chunk > NumChunks(Lines(batch, tail))
          /\ main \in {"rendering", "running"}
    /\ (main \notin {"startup", "joining"}
            /\ (worker = "panicked" \/ result.tag = "Err")) =>
          /\ spawned = <<>>
          /\ orbits = <<>>
          /\ main = "running"

\* the worker panicked, the startup system returned and a frame has run
C24_Witness ==
    /\ worker = "panicked"
    /\ main = "running"
    /\ spawned = <<>>
    /\ frames > 0

\* the camera and the satellite are both outside the sphere
EndsOutside ==
    /\ VDot(ToCentre, ToCentre) > view.earth_radius * view.earth_radius
    /\ VDot(VSub(view.satellite_pos, view.earth_center),
            VSub(view.satellite_pos, view.earth_center))
          > view.earth_radius * view.earth_radius

\* The segment from the camera to the satellite has a point inside or on the
\* sphere.  The squared distance from the centre of the point at parameter t is
\* g(t) = len2 * t^2 - 2 * dot * t + |ToCentre|^2; it is at most radius^2
\* somewhere in [0, 1] iff it is at an end, or the roots of g(t) = radius^2
\* are real and their midpoint dot / len2 lies inside.
SegmentMeetsSphere ==
    \/ ~EndsOutside
    \/ /\ SightDot > 0
       /\ SightDot < SightLen2
       /\ SightDot * SightDot >=
             SightLen2 * (VDot(ToCentre, ToCentre)
                            - view.earth_radius * view.earth_radius)

\* C29: with the camera and the satellite apart and both outside the sphere,
\* is_visible is false exactly when the segment between them meets the sphere.
C29_OcclusionIsSegmentIntersection ==
    (view # Pending /\ view.visible # Pending /\ SightLen2 > 0 /\ EndsOutside) =>
        (view.visible.val <=> ~SegmentMeetsSphere)

\* the planet lies beyond the satellite, on the line of sight: the shortcut
\* answers, and the satellite is in sight
C29_Witness ==
    /\ view # Pending
    /\ view.visible # Pending
    /\ EndsOutside
    /\ SightDot > SightLen2
    /\ ApproachSquared <= RadiusSquared
    /\ view.visible.val

SpeedMagnitudes == {SpeedUnit * 2^k : k \in 0..12}

\* C26: speed_mult is one of +-1, +-2, +-4, ..., +-4096 in every state
\* reached from the default clock by presses of the three buttons.
C26_SpeedMultiplierInvariant ==
    /\ time_state.speed_mult \in SpeedMagnitudes \cup {0 - x : x \in SpeedMagnitudes}
    /\ time_state.speed_mult <= MaxSpeed * SpeedUnit
    /\ time_state.speed_mult >= 0 - MaxSpeed * SpeedUnit

\* forward was pressed at the highest speed, and the speed stayed
C26_Witness ==
    /\ tick.press # Pending
    /\ tick.button = "Forward"
    /\ tick.press.before.speed_mult = MaxSpeed * SpeedUnit
    /\ tick.press.after.speed_mult = MaxSpeed * SpeedUnit

\* C27: whatever button is pressed at a speed reached from the default,
\* handle_time_control of ui.rs does not panic and gives the speed and the
\* paused flag that the method of time.rs gives.
C27_ButtonsMatchMethods ==
    tick.press # Pending =>
        /\ tick.press.ui.tag = "Ok"
        /\ tick.press.ui.val.speed_mult = tick.press.after.speed_mult
        /\ tick.press.ui.val.is_paused = tick.press.after.is_paused

\* the milliseconds update adds for a frame of real_delta at speed speed_mult:
\* the product in milliseconds, cut towards zero
TickMillis(real_delta, speed_mult) ==
    LET product == real_delta * speed_mult
        magnitude == IF product < 0 THEN 0 - product ELSE product
        whole == magnitude \div (SpeedUnit * 1000)
    IN  IF product < 0 THEN 0 - whole ELSE whole

\* C28: update moves sim_time by the truncated milliseconds and leaves the
\* rest, unless the clock is paused or the new time cannot be represented:
\* then the TimeState is as it was.
C28_ClockTickEffect ==
    tick.upd # Pending =>
        LET b == tick.upd.before
            ms == TickMillis(tick.real_delta, b.speed_mult)
        IN  IF b.is_paused \/ b.sim_time + ms \notin RepresentableTimes
            THEN tick.upd.after = b
            ELSE tick.upd.after = [b EXCEPT !.sim_time = b.sim_time + ms]

\* the clock ran backwards by a whole number of milliseconds cut from a
\* fraction
C28_Witness ==
    /\ tick.upd # Pending
    /\ ~tick.upd.before.is_paused
    /\ tick.upd.before.speed_mult < 0
    /\ (tick.real_delta * tick.upd.before.speed_mult) % (SpeedUnit * 1000) # 0
    /\ tick.upd.after.sim_time
          = tick.upd.before.sim_time
              + TickMillis(tick.real_delta, tick.upd.before.speed_mult)
    /\ tick.upd.after.sim_time < tick.upd.before.sim_time

====
